---- MODULE Spec2Model ----
(***************************************************************************)
(* photo2pixel: the command-line front end convert.py (argument parsing,   *)
(* presets, interactive input, parameter validation, path cleaning and the *)
(* conversion driver) and the launcher start.py (virtual environment,      *)
(* dependencies, run mode, subprocess exit status).                        *)
(*                                                                         *)
(* A path is a sequence of tokens.  The tokens are the characters the      *)
(* string functions of clean_dragged_path look at (space, double quote,    *)
(* single quote, backslash), a plain letter, and two file names taken as   *)
(* atoms since none of their characters is looked at by strip or replace.  *)
(* An optional value (Python None or a value) is a sequence of length 0 or *)
(* 1; an optional preset name is a string, "None" when absent.             *)
(***************************************************************************)
EXTENDS Integers, Sequences, FiniteSets, TLC

VARIABLES
    \* convert.py
    args,          \* the argparse namespace of convert.py
    pc,            \* position of convert.py's main
    input_path,    \* main's local input_path
    checked_path,  \* the path that passed the checks of interactive_input
    params,        \* <<>> or <<kernel_size, pixel_size, edge_thresh>>
    source,        \* where the triple came from
    validated,     \* what validate_parameters returned
    errors,        \* the errors validate_parameters reported
    printed,       \* the preset table print_presets printed
    step,          \* progress of convert_with_progress
    outputWritten, \* img_output.save(output_path) has written the file
    result,        \* what convert_with_progress returned
    context,       \* the device the model ran on
    available,     \* the devices available at run time
    exit,          \* exit status of convert.py, -1 while it runs
    \* start.py
    sargs,         \* the argparse namespace of start.py
    spc,           \* position of start.py's main
    calls,         \* the functions start.py's main has called, in order
    venv,          \* what happened to .venv
    pip,           \* what happened to the dependency install
    mode,          \* the mode passed to run_photo2pixel
    cmd,           \* the command line run_photo2pixel built
    sret           \* what start.py's main returned, -1 before

cvars == <<args, pc, input_path, checked_path, params, source, validated, errors,
           printed, step, outputWritten, result, context, available, exit>>
svars == <<sargs, spc, calls, venv, pip, mode, cmd, sret>>
vars == <<args, pc, input_path, checked_path, params, source, validated, errors,
          printed, step, outputWritten, result, context, available, exit,
          sargs, spc, calls, venv, pip, mode, cmd, sret>>

----------------------------------------------------------------------------
\* Bounds and program constants

MaxLen == 3

KernelMin == 1
KernelMax == 50
PixelMin == 1
PixelMax == 64
EdgeMin == 0
EdgeMax == 255
DefaultKernel == 10
DefaultPixel == 16
DefaultEdge == 100
PromptKernel == 10
PromptPixel == 16
PromptEdge == 100

SP == " "
DQ == "\""
SQ == "'"
BS == "\\"
PlainName == "x"
ImageName == "f.png"
DefaultInput == <<"./images/example_input_mountain.jpg">>

Alphabet == {PlainName, ImageName, SP, DQ, SQ, BS}

PresetNames == {"retro", "smooth", "sharp", "classic"}
NoPreset == "None"
Devices == {"auto", "cpu", "cuda", "mps"}

\* The files os.path.exists finds.
Files == {<<ImageName>>, <<SP, ImageName>>, <<PlainName>>, DefaultInput}

----------------------------------------------------------------------------
\* Python's string methods, on token sequences

RECURSIVE lstrip(_, _)
lstrip(s, chars) ==
    IF s # <<>> /\ Head(s) \in chars THEN lstrip(Tail(s), chars) ELSE s

RECURSIVE rstrip(_, _)
rstrip(s, chars) ==
    IF s # <<>> /\ s[Len(s)] \in chars
    THEN rstrip(SubSeq(s, 1, Len(s) - 1), chars)
    ELSE s

strip(s, chars) == rstrip(lstrip(s, chars), chars)

startswith(s, c) == s # <<>> /\ s[1] = c
endswith(s, c) == s # <<>> /\ s[Len(s)] = c

\* s.replace('\\ ', ' '): left to right, non-overlapping
RECURSIVE replace_escaped(_)
replace_escaped(s) ==
    IF s = <<>> THEN <<>>
    ELSE IF Len(s) >= 2 /\ s[1] = BS /\ s[2] = SP
         THEN <<SP>> \o replace_escaped(SubSeq(s, 3, Len(s)))
         ELSE <<s[1]>> \o replace_escaped(Tail(s))

\* Python truthiness of an optional string / an optional int
TruthyStr(o) == o # <<>> /\ o[1] # <<>>
TruthyInt(o) == o # <<>> /\ o[1] # 0

----------------------------------------------------------------------------
\* convert.py: the pure functions

preset_row(k, p, e) == [kernel_size |-> k, pixel_size |-> p, edge_thresh |-> e]

print_presets_table ==
    [n \in PresetNames |->
        CASE n = "retro" -> preset_row(8, 12, 80)
          [] n = "smooth" -> preset_row(16, 20, 120)
          [] n = "sharp" -> preset_row(6, 8, 60)
          [] n = "classic" -> preset_row(10, 16, 100)]

get_preset_config_wrong(preset_name) ==
    CASE preset_name = "retro" -> preset_row(8, 12, 80)
      [] preset_name = "smooth" -> preset_row(16, 20, 120)
      [] preset_name = "sharp" -> preset_row(6, 8, 80)
      [] preset_name = "classic" -> preset_row(10, 16, 100)

get_preset_config(preset_name) ==
    CASE preset_name = "retro" -> preset_row(8, 12, 80)
      [] preset_name = "smooth" -> preset_row(16, 20, 120)
      [] preset_name = "sharp" -> preset_row(6, 8, 60)
      [] preset_name = "classic" -> preset_row(10, 16, 100)

config_triple(config) == <<config.kernel_size, config.pixel_size, config.edge_thresh>>

clean_dragged_path(path) ==
    LET c1 == strip(path, {SP})
        c2 == IF (startswith(c1, DQ) /\ endswith(c1, DQ))
                 \/ (startswith(c1, SQ) /\ endswith(c1, SQ))
              THEN SubSeq(c1, 2, Len(c1) - 1)
              ELSE c1
        c3 == strip(strip(strip(c2, {SP}), {DQ}), {SQ})
    IN replace_escaped(c3)

\* Path(file_path).suffix.lower() in supported_extensions: the suffix is that of
\* the last token, and is a supported one only for the two file names.
is_image_file(file_path) ==
    file_path # <<>> /\ file_path[Len(file_path)] \in {ImageName, DefaultInput[1]}

path_exists(path) == path \in Files

range_error(name, value, lo, hi) == [param |-> name, value |-> value, lo |-> lo, hi |-> hi]

validate_errors_first_only(kernel_size, pixel_size, edge_thresh) ==
    IF ~(KernelMin <= kernel_size /\ kernel_size <= KernelMax)
    THEN <<range_error("kernel_size", kernel_size, KernelMin, KernelMax)>>
    ELSE IF ~(PixelMin <= pixel_size /\ pixel_size <= PixelMax)
    THEN <<range_error("pixel_size", pixel_size, PixelMin, PixelMax)>>
    ELSE IF ~(EdgeMin <= edge_thresh /\ edge_thresh <= EdgeMax)
    THEN <<range_error("edge_thresh", edge_thresh, EdgeMin, EdgeMax)>>
    ELSE <<>>

validate_errors(kernel_size, pixel_size, edge_thresh) ==
    (IF ~(KernelMin <= kernel_size /\ kernel_size <= KernelMax)
     THEN <<range_error("kernel_size", kernel_size, KernelMin, KernelMax)>>
     ELSE <<>>)
    \o (IF ~(PixelMin <= pixel_size /\ pixel_size <= PixelMax)
        THEN <<range_error("pixel_size", pixel_size, PixelMin, PixelMax)>>
        ELSE <<>>)
    \o (IF ~(EdgeMin <= edge_thresh /\ edge_thresh <= EdgeMax)
        THEN <<range_error("edge_thresh", edge_thresh, EdgeMin, EdgeMax)>>
        ELSE <<>>)

validate_parameters_no_upper(kernel_size, pixel_size, edge_thresh) ==
    KernelMin <= kernel_size /\ PixelMin <= pixel_size /\ EdgeMin <= edge_thresh

validate_parameters(kernel_size, pixel_size, edge_thresh) ==
    validate_errors(kernel_size, pixel_size, edge_thresh) = <<>>

----------------------------------------------------------------------------
\* convert.py: the inputs

RECURSIVE SeqsUpTo(_, _)
SeqsUpTo(S, n) ==
    IF n = 0 THEN {<<>>}
    ELSE LET shorter == SeqsUpTo(S, n - 1)
         IN shorter \cup {Append(s, c) : s \in shorter, c \in S}

\* what the user may type at the path prompt
TypedPaths == SeqsUpTo(Alphabet, MaxLen)

\* what --input may be given as: absent, an image, a quoted image, a file that
\* is no image, a missing file
ArgInputs == {<<>>, <<<<ImageName>>>>, <<<<DQ, ImageName, DQ>>>>,
              <<<<PlainName>>>>, <<<<PlainName, ImageName>>>>}

ArgKernel == {KernelMin - 1, KernelMin, DefaultKernel, KernelMax, KernelMax + 1}
ArgPixel == {PixelMin - 1, PixelMin, DefaultPixel, PixelMax, PixelMax + 1}
ArgEdge == {EdgeMin - 1, EdgeMin, DefaultEdge, EdgeMax, EdgeMax + 1}

\* an answer typed at an integer prompt: nothing, an integer, or no integer
Answer(kind, val) == [kind |-> kind, val |-> val]
TypedKernel == {Answer("empty", 0), Answer("junk", 0),
                Answer("int", KernelMin - 1), Answer("int", KernelMax + 1)}
TypedPixel == {Answer("empty", 0), Answer("junk", 0),
               Answer("int", PixelMin - 1), Answer("int", PixelMax + 1)}
TypedEdge == {Answer("empty", 0), Answer("junk", 0),
              Answer("int", EdgeMin - 1), Answer("int", EdgeMax + 1)}

\* int(input(...) or default)
prompt_int(answer, default) == IF answer.kind = "empty" THEN default ELSE answer.val

NoArgs ==
    [presets |-> FALSE, interactive |-> FALSE, input |-> <<>>, preset |-> NoPreset,
     kernel_size |-> DefaultKernel, pixel_size |-> DefaultPixel,
     edge_thresh |-> DefaultEdge, device |-> "auto"]

----------------------------------------------------------------------------
\* convert.py: main, one action per step

\* parse_args to the choice of the triple
MainEntry ==
    /\ pc = "main"
    /\ IF args.presets
       THEN /\ printed' = print_presets_table
            /\ pc' = "done"
            /\ exit' = 0
            /\ UNCHANGED <<input_path, params, source>>
       ELSE IF args.interactive
       THEN /\ pc' = "interactive_input"
            /\ UNCHANGED <<printed, exit, input_path, params, source>>
       ELSE IF ~TruthyStr(args.input)
       THEN /\ pc' = "done"
            /\ exit' = 0
            /\ UNCHANGED <<printed, input_path, params, source>>
       ELSE /\ input_path' = args.input[1]
            /\ IF args.preset # NoPreset
               THEN /\ params' = config_triple(get_preset_config(args.preset))
                    /\ source' = "preset"
               ELSE /\ params' = <<args.kernel_size, args.pixel_size, args.edge_thresh>>
                    /\ source' = "args"
            /\ pc' = "validate"
            /\ UNCHANGED <<printed, exit>>
    /\ UNCHANGED <<args, checked_path, validated, errors, step, outputWritten,
                   result, context, available>>
    /\ UNCHANGED svars

\* interactive_input, the path loop: it is left only with a path that exists
\* and is an image; an iteration that fails changes nothing that is read later
InteractivePath ==
    /\ pc = "interactive_input"
    /\ \E typed \in TypedPaths :
          LET stripped == strip(typed, {SP})
              given == IF stripped = <<>> THEN DefaultInput ELSE stripped
              cleaned == clean_dragged_path(given)
          IN /\ path_exists(cleaned)
             /\ is_image_file(cleaned)
             /\ input_path' = cleaned
             /\ checked_path' = <<cleaned>>
    /\ printed' = print_presets_table
    /\ pc' = "interactive_preset"
    /\ UNCHANGED <<args, params, source, validated, errors, step, outputWritten,
                   result, context, available, exit>>
    /\ UNCHANGED svars

\* interactive_input, the preset prompt and the three integer prompts
InteractivePreset ==
    /\ pc = "interactive_preset"
    /\ \E choice \in PresetNames \cup {""} :
       \E ak \in TypedKernel, ap \in TypedPixel, ae \in TypedEdge :
          IF choice \in PresetNames
          THEN /\ params' = config_triple(get_preset_config(choice))
               /\ source' = choice
               /\ pc' = "validate"
               /\ exit' = exit
          ELSE IF ak.kind = "junk" \/ ap.kind = "junk" \/ ae.kind = "junk"
          THEN \* int() raises ValueError, which nothing catches
               /\ pc' = "done"
               /\ exit' = 1
               /\ UNCHANGED <<params, source>>
          ELSE /\ params' = <<prompt_int(ak, PromptKernel), prompt_int(ap, PromptPixel),
                              prompt_int(ae, PromptEdge)>>
               /\ source' = "typed"
               /\ pc' = "validate"
               /\ exit' = exit
    /\ UNCHANGED <<args, input_path, checked_path, validated, errors, printed, step,
                   outputWritten, result, context, available>>
    /\ UNCHANGED svars

Validate ==
    /\ pc = "validate"
    /\ errors' = validate_errors(params[1], params[2], params[3])
    /\ IF validate_parameters(params[1], params[2], params[3])
       THEN /\ validated' = "True"
            /\ pc' = "check_input"
            /\ exit' = exit
       ELSE /\ validated' = "False"
            /\ pc' = "done"
            /\ exit' = 0
    /\ UNCHANGED <<args, input_path, checked_path, params, source, printed, step,
                   outputWritten, result, context, available>>
    /\ UNCHANGED svars

CheckInput ==
    /\ pc = "check_input"
    /\ input_path' = clean_dragged_path(input_path)
    /\ IF ~path_exists(input_path')
       THEN pc' = "done" /\ exit' = 0
       ELSE IF ~is_image_file(input_path')
       THEN pc' = "done" /\ exit' = 0
       ELSE pc' = "convert" /\ exit' = exit
    /\ UNCHANGED <<args, checked_path, params, source, validated, errors, printed,
                   step, outputWritten, result, context, available>>
    /\ UNCHANGED svars

\* convert_with_progress: a step of the try block either completes or raises,
\* and the except clause returns False
ConvertStep(at, next) ==
    /\ pc = "convert"
    /\ step = at
    /\ \E raised \in BOOLEAN :
          IF raised
          THEN /\ result' = "False"
               /\ pc' = "finish"
               /\ UNCHANGED <<step, outputWritten, context>>
          ELSE /\ step' = next
               /\ outputWritten' = (outputWritten \/ next = "saved")
               /\ context' = IF next = "model" THEN "cpu" ELSE context
               /\ IF next = "reported"
                  THEN result' = "True" /\ pc' = "finish"
                  ELSE result' = result /\ pc' = pc
    /\ UNCHANGED <<args, input_path, checked_path, params, source, validated, errors,
                   printed, available, exit>>
    /\ UNCHANGED svars

LoadImage == ConvertStep("none", "loaded")
ToTensor == ConvertStep("loaded", "tensor")
RunModel == ConvertStep("tensor", "model")
SaveResult == ConvertStep("model", "saved")
ReportSize == ConvertStep("saved", "reported")

Finish ==
    /\ pc = "finish"
    /\ exit' = IF result = "True" THEN 0 ELSE 1
    /\ pc' = "done"
    /\ UNCHANGED <<args, input_path, checked_path, params, source, validated, errors,
                   printed, step, outputWritten, result, context, available>>
    /\ UNCHANGED svars

NextConvert ==
    \/ MainEntry
    \/ InteractivePath
    \/ InteractivePreset
    \/ Validate
    \/ CheckInput
    \/ LoadImage
    \/ ToTensor
    \/ RunModel
    \/ SaveResult
    \/ ReportSize
    \/ Finish

----------------------------------------------------------------------------
\* start.py

NoStartArgs ==
    [mode |-> "interactive", preset |-> NoPreset, input |-> <<>>,
     kernel_size |-> <<>>, pixel_size |-> <<>>, edge_thresh |-> <<>>]
NoCmd ==
    [interactive |-> FALSE, preset |-> NoPreset, input |-> <<>>,
     k |-> <<>>, p |-> <<>>, e |-> <<>>]

ConvertInit ==
    /\ input_path = <<>>
    /\ checked_path = <<>>
    /\ params = <<>>
    /\ source = "unset"
    /\ validated = "unset"
    /\ errors = <<>>
    /\ printed = <<>>
    /\ step = "none"
    /\ outputWritten = FALSE
    /\ result = "unset"
    /\ context = "none"
    /\ exit = -1

StartIdle ==
    /\ sargs = NoStartArgs
    /\ spc = "none"
    /\ calls = <<>>
    /\ venv = "unknown"
    /\ pip = "notrun"
    /\ mode = "unset"
    /\ cmd = NoCmd
    /\ sret = -1

\* convert.py run by hand.  Without --interactive every combination of its
\* options; with --interactive, where main reads none of the other options,
\* each of them absent or given
ArgsBatch ==
    [presets : BOOLEAN, interactive : {FALSE}, input : ArgInputs,
     preset : PresetNames \cup {NoPreset},
     kernel_size : ArgKernel, pixel_size : ArgPixel, edge_thresh : ArgEdge,
     device : {"auto"}]
ArgsInteractive ==
    [presets : BOOLEAN, interactive : {TRUE}, input : {<<>>, <<<<PlainName>>>>},
     preset : PresetNames \cup {NoPreset},
     kernel_size : {DefaultKernel, KernelMax + 1},
     pixel_size : {DefaultPixel, PixelMin - 1},
     edge_thresh : {DefaultEdge, EdgeMax + 1},
     device : {"auto"}]

Init ==
    /\ args \in ArgsBatch \cup ArgsInteractive
    /\ available = {"cpu"}
    /\ pc = "main"
    /\ ConvertInit
    /\ StartIdle

Spec == Init /\ [][NextConvert]_vars

\* convert.py run by hand with its default triple, on every device choice
InitDevice ==
    /\ args \in [presets : BOOLEAN, interactive : BOOLEAN, input : ArgInputs,
                 preset : PresetNames \cup {NoPreset},
                 kernel_size : {DefaultKernel}, pixel_size : {DefaultPixel},
                 edge_thresh : {DefaultEdge}, device : Devices]
    /\ available \in {{"cpu"}, {"cpu", "cuda"}, {"cpu", "mps"}}
    /\ pc = "main"
    /\ ConvertInit
    /\ StartIdle

SpecDevice == InitDevice /\ [][NextConvert]_vars

----------------------------------------------------------------------------
\* start.py: the pure parts

check_venv(venv_exists, created) == venv_exists \/ created

install_dependencies_swallow(requirements_exist, installed) == TRUE

install_dependencies(requirements_exist, installed) ==
    ~requirements_exist \/ installed

\* main, "Determine mode"
determine_mode(a) ==
    IF a.preset # NoPreset THEN "preset"
    ELSE IF TruthyStr(a.input) \/ TruthyInt(a.kernel_size)
            \/ TruthyInt(a.pixel_size) \/ TruthyInt(a.edge_thresh)
    THEN "custom"
    ELSE "interactive"

\* main's kwargs; a key that is not passed is absent
mode_kwargs(m, a) ==
    IF m = "preset"
    THEN [preset |-> a.preset, input |-> a.input, kernel_size |-> <<>>,
          pixel_size |-> <<>>, edge_thresh |-> <<>>]
    ELSE IF m = "custom"
    THEN [preset |-> NoPreset, input |-> a.input, kernel_size |-> a.kernel_size,
          pixel_size |-> a.pixel_size, edge_thresh |-> a.edge_thresh]
    ELSE [preset |-> NoPreset, input |-> <<>>, kernel_size |-> <<>>,
          pixel_size |-> <<>>, edge_thresh |-> <<>>]

\* run_photo2pixel, the command line
build_cmd(m, kw) ==
    IF m = "interactive"
    THEN [NoCmd EXCEPT !.interactive = TRUE]
    ELSE IF m = "preset"
    THEN [NoCmd EXCEPT !.preset = IF kw.preset = NoPreset THEN "classic" ELSE kw.preset,
                       !.input = IF TruthyStr(kw.input) THEN kw.input ELSE <<>>]
    ELSE IF m = "custom"
    THEN [NoCmd EXCEPT !.input = IF TruthyStr(kw.input) THEN kw.input ELSE <<>>,
                       !.k = IF TruthyInt(kw.kernel_size) THEN kw.kernel_size ELSE <<>>,
                       !.p = IF TruthyInt(kw.pixel_size) THEN kw.pixel_size ELSE <<>>,
                       !.e = IF TruthyInt(kw.edge_thresh) THEN kw.edge_thresh ELSE <<>>]
    ELSE NoCmd

\* convert.py's argparse on that command line
parse_args(c) ==
    [presets |-> FALSE, interactive |-> c.interactive, input |-> c.input,
     preset |-> c.preset,
     kernel_size |-> IF c.k = <<>> THEN DefaultKernel ELSE c.k[1],
     pixel_size |-> IF c.p = <<>> THEN DefaultPixel ELSE c.p[1],
     edge_thresh |-> IF c.e = <<>> THEN DefaultEdge ELSE c.e[1],
     device |-> "auto"]

StartInputs == {<<>>, <<<<ImageName>>>>, <<<<PlainName, ImageName>>>>}
StartKernel == {<<>>, <<KernelMin - 1>>, <<KernelMin>>, <<KernelMax + 1>>}
StartPixel == {<<>>, <<PixelMin - 1>>, <<PixelMin>>, <<PixelMax + 1>>}
StartEdge == {<<>>, <<EdgeMin - 1>>, <<EdgeMin>>, <<EdgeMax + 1>>}

----------------------------------------------------------------------------
\* start.py: main, one action per step

StartCheckVenv ==
    /\ spc = "check_venv"
    /\ \E venv_exists \in BOOLEAN, created \in BOOLEAN :
          /\ venv' = IF venv_exists THEN "exists"
                     ELSE IF created THEN "created" ELSE "failed"
          /\ IF check_venv(venv_exists, created)
             THEN spc' = "install" /\ sret' = sret
             ELSE spc' = "done" /\ sret' = 1
    /\ calls' = Append(calls, "check_venv")
    /\ UNCHANGED <<sargs, pip, mode, cmd>>
    /\ UNCHANGED cvars

StartInstall ==
    /\ spc = "install"
    /\ \E requirements_exist \in BOOLEAN, installed \in BOOLEAN :
          /\ pip' = IF ~requirements_exist THEN "skipped"
                    ELSE IF installed THEN "ok" ELSE "failed"
          /\ IF install_dependencies(requirements_exist, installed)
             THEN spc' = "run" /\ sret' = sret
             ELSE spc' = "done" /\ sret' = 1
    /\ calls' = Append(calls, "install_dependencies")
    /\ UNCHANGED <<sargs, venv, mode, cmd>>
    /\ UNCHANGED cvars

\* the mode, run_photo2pixel's command line, and the subprocess started
StartRun ==
    /\ spc = "run"
    /\ mode' = determine_mode(sargs)
    /\ cmd' = build_cmd(mode', mode_kwargs(mode', sargs))
    /\ args' = parse_args(cmd')
    /\ pc' = "main"
    /\ spc' = "wait"
    /\ calls' = Append(calls, "run_photo2pixel")
    /\ UNCHANGED <<sargs, venv, pip, sret>>
    /\ UNCHANGED <<input_path, checked_path, params, source, validated, errors,
                   printed, step, outputWritten, result, context, available, exit>>

\* subprocess.run(cmd, check=True) returns or raises CalledProcessError
StartReturn ==
    /\ spc = "wait"
    /\ pc = "done"
    /\ sret' = IF exit = 0 THEN 0 ELSE 1
    /\ spc' = "done"
    /\ UNCHANGED <<sargs, calls, venv, pip, mode, cmd>>
    /\ UNCHANGED cvars

NextStart ==
    \/ StartCheckVenv
    \/ StartInstall
    \/ StartRun
    \/ StartReturn
    \/ NextConvert

InitStart ==
    /\ sargs \in [mode : {"interactive", "preset", "custom"},
                  preset : PresetNames \cup {NoPreset}, input : StartInputs,
                  kernel_size : StartKernel, pixel_size : StartPixel,
                  edge_thresh : StartEdge]
    /\ spc = "check_venv"
    /\ calls = <<>>
    /\ venv = "unknown"
    /\ pip = "notrun"
    /\ mode = "unset"
    /\ cmd = NoCmd
    /\ sret = -1
    /\ args = NoArgs
    /\ available = {"cpu"}
    /\ pc = "idle"
    /\ ConvertInit

SpecStart == InitStart /\ [][NextStart]_vars

----------------------------------------------------------------------------
\* The claims

\* The ranges and the preset triples as the specification states them
InClaimedRange(t) ==
    /\ 1 <= t[1] /\ t[1] <= 50
    /\ 1 <= t[2] /\ t[2] <= 64
    /\ 0 <= t[3] /\ t[3] <= 255

ClaimedPreset(n) ==
    CASE n = "retro" -> <<8, 12, 80>>
      [] n = "smooth" -> <<16, 20, 120>>
      [] n = "sharp" -> <<6, 8, 60>>
      [] n = "classic" -> <<10, 16, 100>>

ConversionStarted ==
    \/ pc \in {"convert", "finish"}
    \/ step # "none"
    \/ result # "unset"
    \/ outputWritten
    \/ context # "none"

\* C1: however the triple was obtained (explicit options, defaults, --preset,
\* interactive input), a triple with kernel_size outside [1,50], pixel_size
\* outside [1,64] or edge_thresh outside [0,255] never reaches a conversion
\* step: no image loaded, no model call, no output written.
C1_NoConversionOnInvalid ==
    (params # <<>> /\ ~InClaimedRange(params)) => ~ConversionStarted

\* an out-of-range triple typed at the prompts was rejected and main has ended
C1_Witness ==
    /\ pc = "done"
    /\ source = "typed"
    /\ validated = "False"
    /\ ~InClaimedRange(params)

C2_ErrorsOf(name) == {i \in DOMAIN errors : errors[i].param = name}

C2_Reported(name, value, lo, hi) ==
    IF lo <= value /\ value <= hi
    THEN C2_ErrorsOf(name) = {}
    ELSE /\ Cardinality(C2_ErrorsOf(name)) = 1
         /\ \A i \in C2_ErrorsOf(name) :
               errors[i] = [param |-> name, value |-> value, lo |-> lo, hi |-> hi]

\* C2: validate_parameters returns True exactly when the triple is in range;
\* otherwise it reports one error for each out-of-range parameter and none for
\* an in-range one, each naming the parameter, its value and its range.
C2_ValidateExact ==
    validated # "unset" =>
        /\ (validated = "True") = InClaimedRange(params)
        /\ C2_Reported("kernel_size", params[1], 1, 50)
        /\ C2_Reported("pixel_size", params[2], 1, 64)
        /\ C2_Reported("edge_thresh", params[3], 0, 255)
        /\ Len(errors) = Cardinality(C2_ErrorsOf("kernel_size"))
                         + Cardinality(C2_ErrorsOf("pixel_size"))
                         + Cardinality(C2_ErrorsOf("edge_thresh"))

\* a triple with all three parameters out of range, and all three reported
C2_Witness ==
    /\ validated = "False"
    /\ Len(errors) = 3
    /\ params = <<51, 0, 256>>

\* the table print_presets printed holds the four triples
C3_TableAgrees ==
    printed # <<>> =>
        \A n \in PresetNames : config_triple(printed[n]) = ClaimedPreset(n)

\* C3 as stated: whenever a preset is selected, by --preset or at the
\* interactive prompt, the triple is that preset's triple whatever -k/-p/-e
\* say, and print_presets prints the triples get_preset_config returns.
C3_PresetTripleAlways ==
    /\ (args.preset # NoPreset /\ params # <<>>) => params = ClaimedPreset(args.preset)
    /\ source \in PresetNames => params = ClaimedPreset(source)
    /\ C3_TableAgrees

\* C3 as amended: --preset decides the triple when --interactive is not given;
\* with --interactive the preset chosen at the prompt decides it.
C3_PresetTriple ==
    /\ (~args.interactive /\ args.preset # NoPreset /\ params # <<>>)
          => params = ClaimedPreset(args.preset)
    /\ source \in PresetNames => params = ClaimedPreset(source)
    /\ C3_TableAgrees

\* --preset sharp with an out-of-range -k: the model ran on sharp's triple
C3_Witness ==
    /\ ~args.interactive
    /\ args.preset = "sharp"
    /\ args.kernel_size = 51
    /\ params = <<6, 8, 60>>
    /\ validated = "True"
    /\ step = "model"

\* C4: convert_with_progress either completes every step and returns True with
\* the output written, or returns False with no output written.
C4_NoPartialResult ==
    /\ result = "True" => (step = "reported" /\ outputWritten)
    /\ result = "False" => ~outputWritten

\* C5: the device choice governs the execution context: a specific device that
\* is unavailable is an error, never a silent run on another context.
C5_DeviceGoverns ==
    context # "none" =>
        \/ args.device = "auto"
        \/ (args.device \in available /\ context = args.device)

\* C6: the mode passed to run_photo2pixel is the value of --mode.
C6_ModeIsOption ==
    mode # "unset" => mode = sargs.mode

C7_Supplied ==
    sargs.kernel_size # <<>> \/ sargs.pixel_size # <<>> \/ sargs.edge_thresh # <<>>

\* C7: with any of -k, -p, -e given and no --preset, convert.py is launched in
\* custom mode with the supplied value of each supplied parameter.
C7_CustomValuesPassed ==
    (pc # "idle" /\ sargs.preset = NoPreset /\ C7_Supplied) =>
        /\ mode = "custom"
        /\ sargs.kernel_size # <<>> => args.kernel_size = sargs.kernel_size[1]
        /\ sargs.pixel_size # <<>> => args.pixel_size = sargs.pixel_size[1]
        /\ sargs.edge_thresh # <<>> => args.edge_thresh = sargs.edge_thresh[1]

\* C8: a run that produced no converted image is a failure: convert.py exits
\* non-zero and start.py's main returns 1; it returns 0 only after a
\* conversion that completed.
C8_FailureReported ==
    /\ (pc = "done" /\ result # "True") => exit # 0
    /\ (spc = "done" /\ result # "True") => sret = 1
    /\ sret = 0 => result = "True"

C9_Launched == pc # "idle" \/ mode # "unset" \/ spc = "wait"

\* C9: convert.py is launched only after check_venv and then
\* install_dependencies returned True; a failed venv creation or a failed
\* install makes main return 1 with nothing launched; a missing
\* requirements.txt does not block the launch.
C9_LaunchAfterSetup ==
    /\ C9_Launched =>
          /\ calls = <<"check_venv", "install_dependencies", "run_photo2pixel">>
          /\ venv \in {"exists", "created"}
          /\ pip \in {"ok", "skipped"}
    /\ (venv = "failed" \/ pip = "failed") =>
          /\ ~C9_Launched
          /\ spc = "done"
          /\ sret = 1
    /\ spc = "run" => pip \in {"ok", "skipped"}

\* launched although requirements.txt is missing
C9_Witness ==
    /\ pc = "main"
    /\ pip = "skipped"
    /\ venv = "created"

\* C10: clean_dragged_path is idempotent, so in interactive mode the path
\* main cleans again and checks is the path interactive_input checked.
C10_SamePathAfterClean ==
    checked_path # <<>> => input_path = checked_path[1]

====
